---- MODULE Spec2Model ----
(***************************************************************************)
(* A model of the juju-docker charm: the hook entry point (hooks/common.py) *)
(* the Docker lifecycle callback and its argument providers                *)
(* (charmhelpers/contrib/docker), the relation context                     *)
(* (charmhelpers/core/services/helpers.py) and the persistent config       *)
(* (charmhelpers/core/hookenv.py).                                         *)
(*                                                                         *)
(* One hook invocation is one process: Deliver starts it, the steps below  *)
(* follow the statements of manage() and DockerCallback.__call__, and the  *)
(* invocation ends at pc = "idle" with an exit status.                     *)
(***************************************************************************)
EXTENDS Integers, Sequences, FiniteSets, TLC

VARIABLES
    services,      \* the service definitions handed to ServiceManager
    peerRel,       \* environment: what the intracluster relation answers per unit
    pc,            \* position of the running hook invocation
    event,         \* hook name of the running (or last) invocation
    exit,          \* how the last invocation ended: "none", "ok", or the exception raised
    collected,     \* ClusterPeers()['intracluster'] as built by get_data
    svcIdx,        \* index of the service manage() is working on
    container_id,  \* local variable of DockerCallback.__call__
    cidFile,       \* content of $CHARM_DIR/CONTAINER_ID, or NoId when absent
    containers,    \* docker: live container id -> [image, args]; NoContainer else
    cmds,          \* docker commands issued by the running (or last) invocation
    prev,          \* history: how the invocation before the current one ended
    returned,      \* history: services whose callback returned in this invocation
    lastStart      \* history: <<provider data>> of the latest completed start
                   \* invocation that called the callback; <<>> before any

VARIABLES
    cfgPc,         \* "none" before hookenv.config() of any invocation, then "live"
    cur,           \* the Config dict itself: key -> value
    prevDict,      \* Config._prev_dict: [loaded |-> FALSE] is None
    cfgFile,       \* $CHARM_DIR/.juju-persistent-config: [exists, dict]
    hadSnapshot,   \* history: the file existed when this Config was built
    touched,       \* history: keys this invocation assigned / deleted last,
                   \* and whether it has saved
    lastSave,      \* history: the mapping, the items of _prev_dict and the
                   \* deleted keys that the latest save() started from
    loadedFrom     \* history: the file as it was when this Config was built

VARIABLES
    guardPc,       \* position in wrapped_f: "idle", "in_f", "calling", "done", "raised"
    files,         \* the file system: watched path -> content, or NoFileAt
    restart_map,   \* the paths of restart_map in the order the dict yields them
    stopstart,     \* the stopstart argument of restart_on_change
    checksums,     \* local variable of wrapped_f: path -> file_hash before f
    services_list, \* local variable of wrapped_f
    pending,       \* the service() calls wrapped_f has still to make
    called,        \* the service() calls made by the running (or last) pass
    before,        \* history: the watched files as they were when f started
    results        \* what each service() call of the pass returned

guardVars == <<guardPc, files, restart_map, stopstart, checksums,
               services_list, pending, called, before, results>>

VARIABLES
    relIds,        \* environment: hookenv.relation_ids(name), as returned
    relUnits,      \* environment: hookenv.related_units(rid), as returned
    relData,       \* environment: what relation-get answers for (rid, unit)
    relStored,     \* self[self.name] of the RelationContext built last
    relExit,       \* "none", "ok", or the exception its constructor raised
    relArgs        \* what build_args() of the relation providers returned

relVars == <<relIds, relUnits, relData, relStored, relExit, relArgs>>

VARIABLES
    qPc,           \* position of a process building ClusterPeers query by query
    cache,         \* hookenv.cache of that process: key -> memoized result
    qIds,          \* what relation_ids returned to get_data
    qUnits,        \* sorted(related_units(rid)) as get_data walks it
    qIdx,          \* index in qUnits of the unit asked about next
    qStored,       \* ns, the list get_data appends to
    qExit,         \* "none", "ok", or the exception that ended the process
    qSeen          \* history: what the environment held at each query of
                   \* this process: [ids, units, data], and the list the
                   \* process before it had stored: last

qVars == <<qPc, cache, qIds, qUnits, qIdx, qStored, qExit, qSeen>>

VARIABLES
    call,          \* a call of a function of peers.py, contrib/docker or
                   \* host.py: the function and its arguments
    result         \* what the call did: "pending", or [raised, value]

callVars == <<call, result>>

cfgVars == <<cfgPc, cur, prevDict, cfgFile, hadSnapshot,
             touched, lastSave, loadedFrom>>

dockerVars == <<services, peerRel, pc, event, exit, collected, svcIdx,
                container_id, cidFile, containers, cmds>>
histVars == <<prev, returned, lastStart>>

(***************************************************************************)
(* Bounds of the model.                                                    *)
(***************************************************************************)
MaxPeers == 2      \* peer units that may appear on the intracluster relation
MaxIds == 2        \* pool of container ids docker draws fresh ids from
MaxPeerList == 3   \* longest peer list handed to cli_peers
MaxReturnCode == 2 \* highest exit status of an external command

Units == 1..MaxPeers
ContainerIds == {"c" \o ToString(i) : i \in 1..MaxIds}
NoId == "absent"
NoContainer == [image |-> "none", args |-> <<>>]

\* hook names the control plane delivers to common.py (install runs install())
Events == {"start", "stop", "config-changed"}

\* hookenv.charm_dir()
charm_dir == "/charm"

\* answers of relation-get for one unit
Addr(u) == "10.0.0.1" \o ToString(u - 1)
UnitStates == {"absent", "bad", "nokeys", "addr"}

(***************************************************************************)
(* Sequence helpers.                                                       *)
(***************************************************************************)
RECURSIVE Concat(_)
Concat(ss) == IF ss = <<>> THEN <<>> ELSE Head(ss) \o Concat(Tail(ss))

RECURSIVE SortedSeq(_)
SortedSeq(S) ==
    IF S = {} THEN <<>>
    ELSE LET m == CHOOSE x \in S : \A y \in S : x <= y
         IN <<m>> \o SortedSeq(S \ {m})

(***************************************************************************)
(* hookenv: the relation queries get_data makes.                           *)
(***************************************************************************)
\* hookenv.relation_ids('intracluster'): the peer relation has one id, listed
\* once a unit is on it
relation_ids == IF \E u \in Units : peerRel[u] # "absent"
                THEN <<"intracluster:0">> ELSE <<>>

\* sorted(hookenv.related_units(rid)); unit u is named rethinkdb/<u>
related_units == SortedSeq({u \in Units : peerRel[u] # "absent"})

\* hookenv.relation_get(rid, unit): None when the answer cannot be parsed
None == [none |-> TRUE]
relation_get(u) ==
    CASE peerRel[u] = "addr"   -> [k \in {"private-address"} |-> Addr(u)]
      [] peerRel[u] = "nokeys" -> [k \in {} |-> ""]
      [] OTHER                 -> None

(***************************************************************************)
(* RelationContext (services/helpers.py).                                  *)
(***************************************************************************)
\* RelationContext._is_ready
UnitIsReadyWhateverKeys(required_keys, unit_data) == TRUE
UnitIsReady(required_keys, unit_data) == required_keys \subseteq DOMAIN unit_data

\* unit_data.keys() on None raises AttributeError
get_data_raises == \E i \in 1..Len(related_units) : relation_get(related_units[i]) = None

\* RelationContext.get_data: self[self.name]
get_data(required_keys) ==
    LET all == [i \in 1..Len(related_units) |-> relation_get(related_units[i])]
    IN  SelectSeq(all, LAMBDA d : UnitIsReady(required_keys, d))

\* RelationContext.is_ready
is_ready_never(data) == TRUE
is_ready_two_units(data) == Len(data) > 1
is_ready(data) == Len(data) > 0

(***************************************************************************)
(* Argument providers (contrib/docker).                                    *)
(***************************************************************************)
\* the classes a provider is an instance of (for isinstance)
Bases(cls) ==
    CASE cls = "DockerPortMappings"  -> {"DockerPortMappings", "dict"}
      [] cls = "DockerVolumes"       -> {"DockerVolumes"}
      [] cls = "DockerContainerArgs" -> {"DockerContainerArgs"}
      [] cls = "ClusterPeers"        -> {"ClusterPeers", "DockerRelation",
                                         "RelationContext", "dict",
                                         "DockerContainerArgs"}
      [] cls = "DockerRelation"      -> {"DockerRelation", "RelationContext",
                                         "dict", "DockerContainerArgs"}

isinstance(provider, arg_type) == arg_type \in Bases(provider.cls)

\* DockerPortMappings.build_args
PortArgs(ports) ==
    Concat([i \in 1..Len(ports) |->
              <<"-p", ToString(ports[i][1]) \o ":" \o ToString(ports[i][2])>>])

\* DockerVolumes.build_args
VolumeArgs(p) ==
    Concat([i \in 1..Len(p.volumes) |-> <<"-v", p.volumes[i]>>])
    \o Concat([i \in 1..Len(p.named_volumes) |->
                 <<"-v", p.named_volumes[i].volume, "--name", p.named_volumes[i].name>>])
    \o Concat([i \in 1..Len(p.mapped_volumes) |->
                 LET m == p.mapped_volumes[i]
                     host_path == IF m.isabs THEN m.host_path
                                  ELSE charm_dir \o "/" \o m.host_path
                 IN <<"-v", host_path \o ":" \o m.volume>>])

\* ClusterPeers.map (common.py)
ClusterPeersMap(p, relation_settings) ==
    <<"--join", relation_settings["private-address"] \o ":" \o ToString(p.port)>>

\* the keys of a dict in the order iteritems() gives them
RECURSIVE KeysOf(_)
KeysOf(K) ==
    IF K = {} THEN <<>>
    ELSE LET k == CHOOSE x \in K : TRUE IN <<k>> \o KeysOf(K \ {k})

\* DockerRelation.map: str(value) of a string is the string
DockerRelationMap(relation_settings) ==
    LET keys == KeysOf(DOMAIN relation_settings)
    IN Concat([i \in 1..Len(keys) |->
                 <<"--" \o keys[i], relation_settings[keys[i]]>>])

\* self.map(unit)
map(p, relation_settings) ==
    IF p.cls = "ClusterPeers" THEN ClusterPeersMap(p, relation_settings)
    ELSE DockerRelationMap(relation_settings)

\* DockerRelation.build_args
RelationArgsOfFirstUnit(p, data) ==
    IF data = <<>> THEN <<>> ELSE map(p, data[1])
RelationArgs(p, data) ==
    Concat([i \in 1..Len(data) |-> map(p, data[i])])

\* provider.build_args()
build_args(p, data) ==
    CASE p.cls = "DockerPortMappings"  -> PortArgs(p.ports)
      [] p.cls = "DockerVolumes"       -> VolumeArgs(p)
      [] p.cls = "DockerContainerArgs" -> p.args
      [] p.cls = "ClusterPeers"        -> RelationArgs(p, data)
      [] p.cls = "DockerRelation"      -> RelationArgs(p, data)

\* DockerCallback._get_args
get_args_no_relations(service, arg_type, data) ==
    LET req == service.required_data
    IN  Concat([i \in 1..Len(req) |->
                  IF req[i].cls = arg_type THEN build_args(req[i], data) ELSE <<>>])
get_args(service, arg_type, data) ==
    LET req == service.required_data
    IN  Concat([i \in 1..Len(req) |->
                  IF isinstance(req[i], arg_type)
                  THEN build_args(req[i], data) ELSE <<>>])

\* hooks/CONTAINER_ID path: os.path.join(hookenv.charm_dir(), 'CONTAINER_ID')
container_id_file == charm_dir \o "/" \o "CONTAINER_ID"

\* the argument list of subprocess.check_call in the start branch
run_command_ports_first(service, data) ==
    <<"docker", "run", "-d", "-cidfile", container_id_file>>
    \o get_args(service, "DockerPortMappings", data)
    \o get_args(service, "DockerVolumes", data)
    \o <<service.service>>
    \o get_args(service, "DockerContainerArgs", data)
run_command(service, data) ==
    <<"docker", "run", "-d", "-cidfile", container_id_file>>
    \o get_args(service, "DockerVolumes", data)
    \o get_args(service, "DockerPortMappings", data)
    \o <<service.service>>
    \o get_args(service, "DockerContainerArgs", data)

(***************************************************************************)
(* Service definitions.                                                    *)
(***************************************************************************)
PortsProvider ==
    [cls |-> "DockerPortMappings",
     ports |-> << <<80, 8080>>, <<29015, 29015>>, <<28015, 28015>> >>]
VolumesProvider(path, abs) ==
    [cls |-> "DockerVolumes", volumes |-> <<>>, named_volumes |-> <<>>,
     mapped_volumes |-> << [host_path |-> path, isabs |-> abs, volume |-> "/rethinkdb"] >>]
ArgsProvider ==
    [cls |-> "DockerContainerArgs",
     args |-> <<"rethinkdb", "--bind", "all",
                "--canonical-address", "public-address",
                "--canonical-address", "private-address",
                "--machine-name", "host_1">>]
ClusterPeers ==
    [cls |-> "ClusterPeers", name |-> "intracluster",
     required_keys |-> {"private-address"}, port |-> 29015]

\* a relation provider that keeps DockerRelation.map
PlainRelation ==
    [cls |-> "DockerRelation", name |-> "intracluster",
     required_keys |-> {"private-address"}]

\* the definition of common.py manage()
RethinkService ==
    [service |-> "dockerfile/rethinkdb",
     required_data |-> <<PortsProvider, VolumesProvider("data", FALSE),
                         ArgsProvider, ClusterPeers>>]
\* a definition declaring the same kinds of provider in another order
ProxyService ==
    [service |-> "proxy",
     required_data |-> <<ClusterPeers,
                         [cls |-> "DockerContainerArgs", args |-> <<"--verbose">>],
                         [cls |-> "DockerPortMappings", ports |-> << <<443, 8443>> >>],
                         VolumesProvider("/srv/proxy", TRUE),
                         [cls |-> "DockerVolumes", volumes |-> <<"/cache">>,
                          named_volumes |-> << [name |-> "logs", volume |-> "/log"] >>,
                          mapped_volumes |-> <<>>]>>]

(***************************************************************************)
(* The hook invocation: common.py manage() and ServiceManager.manage().    *)
(***************************************************************************)
CurrentService == services[svcIdx]

\* how an invocation ended: its exit status, whether the callback returned
\* in it, the record and the launch arguments of the recorded instance it
\* left and, when its inputs are tracked and it completed, the event and
\* the provider data it worked on
Snapshot(inputs) ==
    [event |-> IF inputs /\ exit = "ok" THEN event ELSE "none",
     data |-> IF inputs /\ exit = "ok" THEN collected ELSE <<>>,
     exit |-> exit, called |-> returned # {}, record |-> cidFile,
     args |-> IF cidFile = NoId THEN <<>> ELSE containers[cidFile].args]

\* the control plane starts a hook; the process begins with fresh locals
BeginHook(e, inputs) ==
    /\ pc = "idle"
    /\ pc' = "gather"
    /\ event' = e
    /\ exit' = "none"
    /\ cmds' = <<>>
    /\ collected' = <<>>
    /\ container_id' = NoId
    /\ svcIdx' = 1
    /\ prev' = Snapshot(inputs)
    /\ returned' = {}
    /\ UNCHANGED lastStart
    /\ UNCHANGED <<cfgVars, guardVars, relVars, qVars, callVars>>
    /\ UNCHANGED <<services, peerRel, cidFile, containers>>

Deliver(e) == BeginHook(e, FALSE)

\* the same step, remembering the inputs of the invocation that ended
DeliverTracked(e) == BeginHook(e, TRUE)

\* manage() builds the service definitions: ClusterPeers() runs get_data
Gather ==
    /\ pc = "gather"
    /\ ~get_data_raises
    /\ collected' = get_data(ClusterPeers.required_keys)
    /\ pc' = "manage"
    /\ UNCHANGED histVars
    /\ UNCHANGED <<cfgVars, guardVars, relVars, qVars, callVars>>
    /\ UNCHANGED <<services, peerRel, event, exit, svcIdx, container_id,
                   cidFile, containers, cmds>>

\* get_data meets an answer that is None: the invocation dies
GatherRaises ==
    /\ pc = "gather"
    /\ get_data_raises
    /\ pc' = "idle"
    /\ exit' = "AttributeError"
    /\ UNCHANGED histVars
    /\ UNCHANGED <<cfgVars, guardVars, relVars, qVars, callVars>>
    /\ UNCHANGED <<services, peerRel, event, collected, svcIdx, container_id,
                   cidFile, containers, cmds>>

\* a provider is mandatory when it carries a readiness predicate
Mandatory(provider) == isinstance(provider, "RelationContext")

\* aggregate readiness of a service: AND over its mandatory providers
ServiceReady(service, data) ==
    \A i \in 1..Len(service.required_data) :
        Mandatory(service.required_data[i]) => is_ready(data)

\* ready: the lifecycle callback is invoked with the event name
ManageInvoke ==
    /\ pc = "manage"
    /\ svcIdx <= Len(services)
    /\ ServiceReady(CurrentService, collected)
    /\ pc' = "call"
    /\ UNCHANGED histVars
    /\ UNCHANGED <<cfgVars, guardVars, relVars, qVars, callVars>>
    /\ UNCHANGED <<services, peerRel, event, exit, collected, svcIdx,
                   container_id, cidFile, containers, cmds>>

\* not ready: the service is skipped, which is no error
ManageSkip ==
    /\ pc = "manage"
    /\ svcIdx <= Len(services)
    /\ ~ServiceReady(CurrentService, collected)
    /\ svcIdx' = svcIdx + 1
    /\ UNCHANGED histVars
    /\ UNCHANGED <<cfgVars, guardVars, relVars, qVars, callVars>>
    /\ UNCHANGED <<services, peerRel, pc, event, exit, collected,
                   container_id, cidFile, containers, cmds>>

\* every service handled: the process exits 0
ManageDone ==
    /\ pc = "manage"
    /\ svcIdx > Len(services)
    /\ pc' = "idle"
    /\ exit' = "ok"
    /\ lastStart' = IF event = "start" /\ returned # {}
                    THEN <<collected>> ELSE lastStart
    /\ UNCHANGED <<prev, returned>>
    /\ UNCHANGED <<cfgVars, guardVars, relVars, qVars, callVars>>
    /\ UNCHANGED <<services, peerRel, event, collected, svcIdx, container_id,
                   cidFile, containers, cmds>>

(***************************************************************************)
(* DockerCallback.__call__(manager, service_name, event_name).             *)
(***************************************************************************)
\* os.path.exists(container_id_file)
RecordExistsAndRunning == cidFile # NoId /\ containers[cidFile] # NoContainer
RecordExists == cidFile # NoId

\* event_name == 'start'
IsStartAnyButStop(event_name) == event_name # "stop"
IsStartTypo(event_name) == event_name = "started"
IsStartIfNoRecord(event_name) == event_name = "start" /\ container_id = NoId
IsStart(event_name) == event_name = "start"

\* the callback returns to the manager's loop
ReturnToManager ==
    /\ pc' = "manage"
    /\ svcIdx' = svcIdx + 1
    /\ returned' = returned \cup {svcIdx}

\* a failing check_call raises CalledProcessError: the invocation dies
Abort ==
    /\ pc' = "idle"
    /\ exit' = "CalledProcessError"

\* line 65, no record: the if body is skipped
CallNoRecord ==
    /\ pc = "call"
    /\ ~RecordExists
    /\ container_id' = NoId
    /\ pc' = "event"
    /\ UNCHANGED histVars
    /\ UNCHANGED <<cfgVars, guardVars, relVars, qVars, callVars>>
    /\ UNCHANGED <<services, peerRel, event, exit, collected, svcIdx,
                   cidFile, containers, cmds>>

\* check_call raised at line 67: line 68 is not reached
StopFailedRemovesRecord == cidFile' = NoId
StopFailed == cidFile' = cidFile

\* lines 66-67: read the record, docker stop <id>; docker stops a container
\* that is live, and exits non-zero for one it does not know or cannot stop
DockerStop ==
    /\ pc = "call"
    /\ RecordExists
    /\ container_id' = cidFile
    /\ cmds' = Append(cmds, [cmd |-> "stop", id |-> cidFile,
                             image |-> CurrentService.service, args |-> <<>>])
    /\ \/ /\ containers[cidFile] # NoContainer
          /\ containers' = [containers EXCEPT ![cidFile] = NoContainer]
          /\ pc' = "remove"
          /\ UNCHANGED <<exit, cidFile>>
       \/ /\ Abort
          /\ StopFailed
          /\ UNCHANGED <<containers>>
    /\ UNCHANGED histVars
    /\ UNCHANGED <<cfgVars, guardVars, relVars, qVars, callVars>>
    /\ UNCHANGED <<services, peerRel, event, collected, svcIdx>>

\* line 68: os.remove(container_id_file)
RemoveRecordKeeps == cidFile' = cidFile
RemoveRecordEffect == cidFile' = NoId
RemoveRecord ==
    /\ pc = "remove"
    /\ RemoveRecordEffect
    /\ pc' = "event"
    /\ UNCHANGED histVars
    /\ UNCHANGED <<cfgVars, guardVars, relVars, qVars, callVars>>
    /\ UNCHANGED <<services, peerRel, event, exit, collected, svcIdx,
                   container_id, containers, cmds>>

\* lines 69-75: docker run -d -cidfile <file> ...; docker refuses to run when
\* the file exists, else it writes the new container's id to it: an id that
\* is fresh (no live container has it, nor had the one just stopped)
DockerRun ==
    /\ pc = "event"
    /\ IsStart(event)
    /\ LET argv == run_command(CurrentService, collected)
       IN /\ cmds' = Append(cmds, [cmd |-> "run", id |-> NoId,
                                   image |-> CurrentService.service, args |-> argv])
          /\ \/ /\ cidFile = NoId
                /\ \E id \in ContainerIds :
                      /\ containers[id] = NoContainer
                      /\ id # container_id
                      /\ containers' = [containers EXCEPT ![id] =
                             [image |-> CurrentService.service, args |-> argv]]
                      /\ cidFile' = id
                /\ ReturnToManager
                /\ UNCHANGED <<exit>>
             \/ /\ Abort
                /\ UNCHANGED <<containers, cidFile, svcIdx, returned>>
    /\ UNCHANGED <<prev, lastStart>>
    /\ UNCHANGED <<cfgVars, guardVars, relVars, qVars, callVars>>
    /\ UNCHANGED <<services, peerRel, event, collected, container_id>>

\* line 69, any other event: nothing is run
CallReturn ==
    /\ pc = "event"
    /\ ~IsStart(event)
    /\ ReturnToManager
    /\ UNCHANGED <<prev, lastStart>>
    /\ UNCHANGED <<cfgVars, guardVars, relVars, qVars, callVars>>
    /\ UNCHANGED <<services, peerRel, event, exit, collected, container_id,
                   cidFile, containers, cmds>>

(***************************************************************************)
(* The environment: peers join, publish and depart. The invocation reads  *)
(* the relation in Gather only, so a change during its later steps shows   *)
(* exactly as one made after it: changes are taken between invocations.    *)
(***************************************************************************)
PeerChange(u, s) ==
    /\ pc = "idle"
    /\ peerRel[u] # s
    /\ peerRel' = [peerRel EXCEPT ![u] = s]
    /\ UNCHANGED histVars
    /\ UNCHANGED <<cfgVars, guardVars, relVars, qVars, callVars>>
    /\ UNCHANGED <<services, pc, event, exit, collected, svcIdx,
                   container_id, cidFile, containers, cmds>>

(***************************************************************************)
(* hookenv.Config: the persistent config of the charm.                     *)
(***************************************************************************)
\* keys: a charm option config-get reports, and a key a hook adds
OptionKeys == {"storage-path"}
HookKeys == {"mykey"}
CfgKeys == OptionKeys \cup HookKeys

\* Python values, by their repr; PyNone is what dict.get gives for no key
PyNone == "None"
OptionValues == {"'data'", PyNone}
HookValues == {"'myval'", "(1, 2)"}

\* json.load(json.dump(v)): a tuple comes back as a list
JsonValue(v) == IF v = "(1, 2)" THEN "[1, 2]" ELSE v
JsonDict(d) == [k \in DOMAIN d |-> JsonValue(d[k])]

EmptyDict == [k \in {} |-> PyNone]
NoPrev == [loaded |-> FALSE, dict |-> EmptyDict]
NoFile == [exists |-> FALSE, dict |-> EmptyDict]

\* nothing assigned, deleted or saved yet; no save() yet
NoTouch == [assigned |-> {}, deleted |-> {}, saved |-> FALSE]
NoSave == [done |-> FALSE, cur |-> EmptyDict, prev |-> EmptyDict, deleted |-> {}]

Put(d, k, v) == [x \in DOMAIN d \cup {k} |-> IF x = k THEN v ELSE d[x]]
Drop(d, k) == [x \in DOMAIN d \ {k} |-> d[x]]

\* dict.get(key)
DictGet(d, key) == IF key \in DOMAIN d THEN d[key] ELSE PyNone

\* Config.previous(key)
previous_reads_file(key) == DictGet(cfgFile.dict, key)
previous(key) ==
    IF prevDict.loaded /\ DOMAIN prevDict.dict # {}
    THEN DictGet(prevDict.dict, key) ELSE PyNone

\* Config.changed(key)
changed_without_none_test(key) == previous(key) # DictGet(cur, key)
changed(key) ==
    IF ~prevDict.loaded THEN TRUE
    ELSE previous(key) # DictGet(cur, key)

\* hookenv.config(): Config(config_data); __init__ loads the snapshot when
\* the file exists
ConfigInit(config_data) ==
    /\ cfgPc' = "live"
    /\ cur' = config_data
    /\ prevDict' = IF cfgFile.exists
                   THEN [loaded |-> TRUE, dict |-> cfgFile.dict] ELSE NoPrev
    /\ hadSnapshot' = cfgFile.exists
    /\ touched' = NoTouch
    /\ loadedFrom' = cfgFile
    /\ UNCHANGED <<cfgFile, lastSave>>
    /\ UNCHANGED <<dockerVars, histVars, guardVars, relVars, qVars, callVars>>

\* config[key] = value
SetItem(key, value) ==
    /\ cfgPc = "live"
    /\ cur' = Put(cur, key, value)
    /\ touched' = [touched EXCEPT !.assigned = @ \cup {key},
                                  !.deleted = @ \ {key}]
    /\ UNCHANGED <<cfgPc, prevDict, cfgFile, hadSnapshot, lastSave, loadedFrom>>
    /\ UNCHANGED <<dockerVars, histVars, guardVars, relVars, qVars, callVars>>

\* del config[key]
DelItem(key) ==
    /\ cfgPc = "live"
    /\ key \in DOMAIN cur
    /\ cur' = Drop(cur, key)
    /\ touched' = [touched EXCEPT !.deleted = @ \cup {key},
                                  !.assigned = @ \ {key}]
    /\ UNCHANGED <<cfgPc, prevDict, cfgFile, hadSnapshot, lastSave, loadedFrom>>
    /\ UNCHANGED <<dockerVars, histVars, guardVars, relVars, qVars, callVars>>

\* Config.save(), lines 244-247: the items of _prev_dict that are not in self
MergePrevNever(c, p) == c
MergePrevOverwrites(c, p) ==
    IF p.loaded /\ DOMAIN p.dict # {}
    THEN [k \in DOMAIN c \cup DOMAIN p.dict |->
            IF k \in DOMAIN p.dict THEN p.dict[k] ELSE c[k]]
    ELSE c
MergePrev(c, p) ==
    IF p.loaded /\ DOMAIN p.dict # {}
    THEN [k \in DOMAIN c \cup DOMAIN p.dict |->
            IF k \in DOMAIN c THEN c[k] ELSE p.dict[k]]
    ELSE c

\* Config.save()
Save ==
    /\ cfgPc = "live"
    /\ cur' = MergePrev(cur, prevDict)
    /\ cfgFile' = [exists |-> TRUE, dict |-> JsonDict(cur')]
    /\ lastSave' = [done |-> TRUE, cur |-> cur, prev |-> prevDict.dict,
                    deleted |-> touched.deleted]
    /\ touched' = [touched EXCEPT !.saved = TRUE]
    /\ UNCHANGED <<cfgPc, prevDict, hadSnapshot, loadedFrom>>
    /\ UNCHANGED <<dockerVars, histVars, guardVars, relVars, qVars, callVars>>


(***************************************************************************)
(* RelationContext over any number of relation ids (services/helpers.py).  *)
(***************************************************************************)
\* relation ids are named db:<n> and the units of one relation id
\* wordpress/<n>; Python compares the names as strings, so the decimal
\* digits of <n> decide
RelNumbers == {2, 10}
UnitNumbers == {2, 10}
Digits(n) == IF n < 10 THEN <<n>> ELSE <<n \div 10, n % 10>>

\* a < b for two strings that differ only in their digits
StrLess(a, b) ==
    \E i \in 1..(Len(a) + 1) :
        /\ i <= Len(b)
        /\ \A j \in 1..(i - 1) : a[j] = b[j]
        /\ i <= Len(a) => a[i] < b[i]

\* Python's sorted() on a list of such names, given by their numbers
RECURSIVE SortedSet(_)
SortedSet(S) ==
    IF S = {} THEN <<>>
    ELSE LET m == CHOOSE x \in S : \A y \in S \ {x} : StrLess(Digits(x), Digits(y))
         IN <<m>> \o SortedSet(S \ {m})
sorted_keeps_order(seq) == seq
sorted(seq) == SortedSet({seq[i] : i \in 1..Len(seq)})

\* the lists the environment may return: any order, no repetition
Orderings(S) ==
    {<<>>} \cup {<<x>> : x \in S}
           \cup {<<pr[1], pr[2]>> : pr \in {q \in S \X S : q[1] # q[2]}}

\* hookenv.relation_get(rid=rid, unit=unit)
RelAddr(rid, unit) == "10." \o ToString(rid) \o ".0." \o ToString(unit)
RelAnswers == {"addr", "other", "bad"}
relation_get_of(rid, unit) ==
    CASE relData[<<rid, unit>>] = "addr"  ->
             [k \in {"private-address"} |-> RelAddr(rid, unit)]
      [] relData[<<rid, unit>>] = "other" ->
             [k \in {"hostname"} |-> "node"]
      [] OTHER -> None

\* the (rid, unit) pairs get_data asks about, in the order of its two loops
Visited ==
    LET rids == sorted(relIds)
    IN Concat([i \in 1..Len(rids) |->
                 LET units == sorted(relUnits[rids[i]])
                 IN [j \in 1..Len(units) |-> <<rids[i], units[j]>>]])

\* RelationContext.get_data, lines 85-93
StoredBy(required_keys) ==
    LET all == [i \in 1..Len(Visited) |->
                   relation_get_of(Visited[i][1], Visited[i][2])]
    IN SelectSeq(all, LAMBDA d : UnitIsReady(required_keys, d))

\* RelationContext.__init__: get_data ran to its end
RelationContextInit ==
    /\ \A i \in 1..Len(Visited) :
        relation_get_of(Visited[i][1], Visited[i][2]) # None
    /\ relStored' = StoredBy(ClusterPeers.required_keys)
    /\ relExit' = "ok"
    /\ UNCHANGED <<relIds, relUnits, relData, relArgs>>
    /\ UNCHANGED <<dockerVars, histVars, cfgVars, guardVars, qVars, callVars>>

\* RelationContext.__init__: relation_get gave None and _is_ready raised
RelationContextRaises ==
    /\ \E i \in 1..Len(Visited) :
        relation_get_of(Visited[i][1], Visited[i][2]) = None
    /\ relStored' = <<>>
    /\ relExit' = "AttributeError"
    /\ UNCHANGED <<relIds, relUnits, relData, relArgs>>
    /\ UNCHANGED <<dockerVars, histVars, cfgVars, guardVars, qVars, callVars>>

\* build_args() of the two relation providers, each holding the stored units
NotBuilt == [built |-> FALSE, cluster |-> <<>>, plain |-> <<>>]
RelationBuildArgs ==
    /\ relExit = "ok"
    /\ relArgs' = [built |-> TRUE,
                   cluster |-> build_args(ClusterPeers, relStored),
                   plain |-> build_args(PlainRelation, relStored)]
    /\ UNCHANGED <<relIds, relUnits, relData, relStored, relExit>>
    /\ UNCHANGED <<dockerVars, histVars, cfgVars, guardVars, qVars, callVars>>

(***************************************************************************)
(* ClusterPeers() built query by query, while the peers come and go; the   *)
(* queries go through hookenv.cached.                                      *)
(***************************************************************************)
NoneSeen == [ids |-> <<>>, units |-> <<>>, data |-> <<>>, last |-> <<>>]

\* hookenv.py line 22, run when the process imports hookenv: cache = {}
EmptyCache == [k \in {} |-> <<>>]
FreshCacheFromLastProcess == cache
FreshCache == EmptyCache

\* hookenv.cached: wrapper, lines 38-46
Cached(key, value) == IF key \in DOMAIN cache THEN cache[key] ELSE value
CachePut(key, value) ==
    IF key \in DOMAIN cache THEN cache
    ELSE [k \in DOMAIN cache \cup {key} |-> IF k = key THEN value ELSE cache[k]]

\* the cache keys, str((func, args, kwargs))
KeyGet(u) == "relation_get " \o ToString(u)

\* a hook process starts and imports hookenv
QueryStart ==
    /\ qPc \in {"idle", "done", "failed"}
    /\ qPc' = "ids"
    /\ cache' = FreshCache
    /\ qIds' = <<>>
    /\ qUnits' = <<>>
    /\ qIdx' = 1
    /\ qStored' = <<>>
    /\ qExit' = "none"
    /\ qSeen' = [NoneSeen EXCEPT !.last = qStored]
    /\ UNCHANGED <<dockerVars, histVars, cfgVars, guardVars, relVars, callVars>>

\* get_data, line 85: hookenv.relation_ids(self.name); return when empty
QueryRelationIds ==
    /\ qPc = "ids"
    /\ LET ids == Cached("relation_ids", relation_ids)
       IN /\ qIds' = ids
          /\ cache' = CachePut("relation_ids", relation_ids)
          /\ qSeen' = [qSeen EXCEPT !.ids = relation_ids]
          /\ IF ids = <<>>
             THEN qPc' = "done" /\ qExit' = "ok"
             ELSE qPc' = "units" /\ qExit' = qExit
    /\ UNCHANGED <<qUnits, qIdx, qStored>>
    /\ UNCHANGED <<dockerVars, histVars, cfgVars, guardVars, relVars, callVars>>

\* line 90: sorted(hookenv.related_units(rid)), the peer relation has one rid
QueryRelatedUnits ==
    /\ qPc = "units"
    /\ LET units == Cached("related_units", related_units)
       IN /\ qUnits' = units
          /\ cache' = CachePut("related_units", related_units)
          /\ qSeen' = [qSeen EXCEPT !.units = related_units]
          /\ IF units = <<>>
             THEN qPc' = "done" /\ qExit' = "ok"
             ELSE qPc' = "get" /\ qExit' = qExit
    /\ qIdx' = 1
    /\ UNCHANGED <<qIds, qStored>>
    /\ UNCHANGED <<dockerVars, histVars, cfgVars, guardVars, relVars, callVars>>

\* lines 91-93 for one unit whose relation data relation_get returns
QueryRelationGet ==
    /\ qPc = "get"
    /\ LET unit == qUnits[qIdx]
           reldata == Cached(KeyGet(unit), relation_get(unit))
       IN /\ reldata # None
          /\ cache' = CachePut(KeyGet(unit), relation_get(unit))
          /\ qSeen' = [qSeen EXCEPT !.data = Append(@, <<unit, peerRel[unit]>>)]
          /\ qStored' = IF UnitIsReady(ClusterPeers.required_keys, reldata)
                        THEN Append(qStored, reldata) ELSE qStored
    /\ qIdx' = qIdx + 1
    /\ IF qIdx = Len(qUnits)
       THEN qPc' = "done" /\ qExit' = "ok"
       ELSE qPc' = "get" /\ qExit' = qExit
    /\ UNCHANGED <<qIds, qUnits>>
    /\ UNCHANGED <<dockerVars, histVars, cfgVars, guardVars, relVars, callVars>>

\* lines 91-92 for a unit relation-get knows nothing of: relation_get
\* returns None when relation-get exits 2 or prints no JSON, and _is_ready
\* raises AttributeError; it re-raises any other exit status
QueryRelationGetFails ==
    /\ qPc = "get"
    /\ LET unit == qUnits[qIdx]
           reldata == Cached(KeyGet(unit), relation_get(unit))
       IN /\ reldata = None
          /\ qSeen' = [qSeen EXCEPT !.data = Append(@, <<unit, peerRel[unit]>>)]
          /\ \/ /\ qExit' = "AttributeError"
                /\ cache' = CachePut(KeyGet(unit), None)
             \/ /\ KeyGet(unit) \notin DOMAIN cache
                /\ qExit' = "CalledProcessError"
                /\ cache' = cache
    /\ qPc' = "failed"
    /\ UNCHANGED <<qIds, qUnits, qIdx, qStored>>
    /\ UNCHANGED <<dockerVars, histVars, cfgVars, guardVars, relVars, callVars>>

(***************************************************************************)
(* hookenv.relation_for_unit, called by a hook of the same process. Its    *)
(* relation_get(unit=unit, rid=rid) has the cache key of get_data's        *)
(* relation_get(rid=rid, unit=unit): str() prints the two keyword          *)
(* arguments in the same order for both. What the cache holds is the       *)
(* object itself, so line 332 writes into the memoized value and into the  *)
(* list entries of a provider that stored it.                              *)
(***************************************************************************)
UnitName(u) == "rethinkdb/" \o ToString(u)
KeyForUnit(u) == "relation_for_unit " \o ToString(u)

\* lines 329-332 on the object relation_get returned; no key of the
\* relation ends with -list
WithUnitKey(unit, relation) ==
    [k \in DOMAIN relation \cup {"__unit__"} |->
        IF k = "__unit__" THEN UnitName(unit) ELSE relation[k]]

\* relation_for_unit(unit, rid), not memoized yet; iterating None raises
RelationForUnit(u) ==
    /\ qPc \in {"ids", "units", "get", "done"}
    /\ KeyForUnit(u) \notin DOMAIN cache
    /\ LET relation == Cached(KeyGet(u), relation_get(u))
           written == WithUnitKey(u, relation)
       IN IF relation = None
          THEN /\ cache' = CachePut(KeyGet(u), None)
               /\ qPc' = "failed"
               /\ qExit' = "TypeError"
               /\ UNCHANGED qStored
          ELSE /\ cache' = [k \in DOMAIN cache \cup {KeyGet(u), KeyForUnit(u)} |->
                                IF k \in {KeyGet(u), KeyForUnit(u)} THEN written
                                ELSE cache[k]]
               /\ qStored' = [i \in 1..Len(qStored) |->
                                 IF qStored[i] = relation /\ KeyGet(u) \in DOMAIN cache
                                 THEN written ELSE qStored[i]]
               /\ UNCHANGED <<qPc, qExit>>
    /\ UNCHANGED <<qIds, qUnits, qIdx, qSeen>>
    /\ UNCHANGED <<dockerVars, histVars, cfgVars, guardVars, relVars, callVars>>

(***************************************************************************)
(* The docker runtime as others use it: containers are started and removed *)
(* without the callback, which leaves the record file as it is.            *)
(***************************************************************************)
ExternalContainer == [image |-> "external", args |-> <<>>]

\* somebody runs a container; docker gives it an id of its own
ExternalRun(id) ==
    /\ pc = "idle"
    /\ containers[id] = NoContainer
    /\ id # cidFile
    /\ containers' = [containers EXCEPT ![id] = ExternalContainer]
    /\ UNCHANGED histVars
    /\ UNCHANGED <<cfgVars, guardVars, relVars, qVars, callVars>>
    /\ UNCHANGED <<services, peerRel, pc, event, exit, collected, svcIdx,
                   container_id, cidFile, cmds>>

\* somebody stops and removes a container, the recorded one included
ExternalRemove(id) ==
    /\ pc = "idle"
    /\ containers[id] # NoContainer
    /\ containers' = [containers EXCEPT ![id] = NoContainer]
    /\ UNCHANGED histVars
    /\ UNCHANGED <<cfgVars, guardVars, relVars, qVars, callVars>>
    /\ UNCHANGED <<services, peerRel, pc, event, exit, collected, svcIdx,
                   container_id, cidFile, cmds>>

(***************************************************************************)
(* Functions called on their own: peers.cli_peers, peers.run,              *)
(* subprocess.check_call as DockerCallback uses it, host.service.          *)
(***************************************************************************)
Hosts == {"10.0.0.10", "10.0.0.11", "db"}
Ports == {29015, 7000}
PeerLists == UNION {[1..n -> Hosts] : n \in 0..MaxPeerList}
ReturnCodes == 0..MaxReturnCode

\* the fatal keyword of peers.run: not given, True or False
FatalArgs == {"not given", "True", "False"}

NoCall == [fn |-> "none", peers |-> <<>>, port |-> 0, returncode |-> 0,
           fatal |-> "not given", on_failure |-> FALSE]
Pending == [done |-> FALSE, raised |-> "nothing", value |-> ""]
Returned(value) == [done |-> TRUE, raised |-> "nothing", value |-> value]
Raised(exception) == [done |-> TRUE, raised |-> exception, value |-> ""]

CliPeersCalls ==
    {[NoCall EXCEPT !.fn = "cli_peers", !.peers = peers, !.port = port] :
        peers \in PeerLists, port \in Ports}
RunCalls ==
    {[NoCall EXCEPT !.fn = "run", !.returncode = rc, !.fatal = fatal,
                    !.on_failure = handler] :
        rc \in ReturnCodes, fatal \in FatalArgs, handler \in BOOLEAN}
CheckCallCalls ==
    {[NoCall EXCEPT !.fn = "check_call", !.returncode = rc] : rc \in ReturnCodes}
HostServiceCalls ==
    {[NoCall EXCEPT !.fn = "service", !.returncode = rc] : rc \in ReturnCodes}

\* ' '.join(result)
RECURSIVE Join(_, _)
Join(tokens, sep) ==
    IF tokens = <<>> THEN ""
    ELSE IF Len(tokens) = 1 THEN Head(tokens)
    ELSE Head(tokens) \o sep \o Join(Tail(tokens), sep)

\* peers.cli_peers(peers, port), lines 77-80
cli_peers_newest_first(peers, port) ==
    Join(Concat([i \in 1..Len(peers) |->
                   <<"--join", peers[Len(peers) + 1 - i] \o ":" \o ToString(port)>>]), " ")
cli_peers(peers, port) ==
    Join(Concat([i \in 1..Len(peers) |->
                   <<"--join", peers[i] \o ":" \o ToString(port)>>]), " ")

\* peers.run, lines 40-56: what a command that exited with returncode gives
run(returncode, fatal, on_failure) ==
    IF returncode # 0 /\ fatal = "True"
    THEN Raised("CalledProcessError")
    ELSE Returned(ToString(returncode))

\* subprocess.check_call(['docker', ...]) in DockerCallback.__call__
check_call(returncode) ==
    IF returncode # 0 THEN Raised("CalledProcessError")
    ELSE Returned(ToString(returncode))

\* host.service, line 51: subprocess.call(cmd) == 0
host_service(returncode) == Returned(IF returncode = 0 THEN "True" ELSE "False")

CallCliPeers ==
    /\ call.fn = "cli_peers" /\ ~result.done
    /\ result' = Returned(cli_peers(call.peers, call.port))
    /\ UNCHANGED call
    /\ UNCHANGED <<dockerVars, histVars, cfgVars, guardVars, relVars, qVars>>

CallRun ==
    /\ call.fn = "run" /\ ~result.done
    /\ result' = run(call.returncode, call.fatal, call.on_failure)
    /\ UNCHANGED call
    /\ UNCHANGED <<dockerVars, histVars, cfgVars, guardVars, relVars, qVars>>

CallCheckCall ==
    /\ call.fn = "check_call" /\ ~result.done
    /\ result' = check_call(call.returncode)
    /\ UNCHANGED call
    /\ UNCHANGED <<dockerVars, histVars, cfgVars, guardVars, relVars, qVars>>

CallService ==
    /\ call.fn = "service" /\ ~result.done
    /\ result' = host_service(call.returncode)
    /\ UNCHANGED call
    /\ UNCHANGED <<dockerVars, histVars, cfgVars, guardVars, relVars, qVars>>

(***************************************************************************)
(* host.restart_on_change: restart services when watched files change.     *)
(***************************************************************************)
\* the restart_map of the decorator: watched path -> services
WatchedPaths == {"/etc/a.conf", "/etc/b.conf"}
RestartMap(path) ==
    IF path = "/etc/a.conf" THEN <<"api", "volume">>
    ELSE <<"volume", "scheduler", "volume">>

\* what a file may hold; NoFileAt marks a path that does not exist
Contents == {"", "x"}
NoFileAt == "ENOENT"

\* hashlib.md5(content).hexdigest(), and Python's None
Md5(content) == "md5:" \o content
HashNone == "None"

\* host.file_hash(path)
file_hash_of_empty_when_absent(path) ==
    IF files[path] # NoFileAt THEN Md5(files[path]) ELSE Md5("")
file_hash(path) ==
    IF files[path] # NoFileAt THEN Md5(files[path]) ELSE HashNone

\* list(OrderedDict.fromkeys(restarts))
RECURSIVE FromKeys(_, _)
FromKeys(restarts, seen) ==
    IF restarts = <<>> THEN <<>>
    ELSE IF Head(restarts) \in seen THEN FromKeys(Tail(restarts), seen)
    ELSE <<Head(restarts)>> \o FromKeys(Tail(restarts), seen \cup {Head(restarts)})

\* lines 259-263: the services of the paths whose hash is no longer the one
\* in checksums, in the order of restart_map
Restarts_of_every_path ==
    FromKeys(Concat([i \in 1..Len(restart_map) |-> RestartMap(restart_map[i])]), {})
Restarts_not_deduplicated ==
    Concat([i \in 1..Len(restart_map) |->
              IF checksums[restart_map[i]] # file_hash(restart_map[i])
              THEN RestartMap(restart_map[i]) ELSE <<>>])
Restarts ==
    FromKeys(Concat([i \in 1..Len(restart_map) |->
                       IF checksums[restart_map[i]] # file_hash(restart_map[i])
                       THEN RestartMap(restart_map[i]) ELSE <<>>]), {})

\* lines 264-270: the service() calls, in order
ServiceCallsInterleaved(list, ss) ==
    IF ~ss THEN [i \in 1..Len(list) |-> <<"restart", list[i]>>]
    ELSE Concat([i \in 1..Len(list) |->
                   << <<"stop", list[i]>>, <<"start", list[i]>> >>])
ServiceCalls(list, ss) ==
    IF ~ss THEN [i \in 1..Len(list) |-> <<"restart", list[i]>>]
    ELSE [i \in 1..Len(list) |-> <<"stop", list[i]>>]
         \o [i \in 1..Len(list) |-> <<"start", list[i]>>]

\* wrapped_f is called: lines 255-257, then f starts
WrappedEnter ==
    /\ guardPc \in {"idle", "done", "raised"}
    /\ guardPc' = "in_f"
    /\ checksums' = [path \in WatchedPaths |-> file_hash(path)]
    /\ services_list' = <<>>
    /\ pending' = <<>>
    /\ called' = <<>>
    /\ before' = files
    /\ results' = <<>>
    /\ UNCHANGED <<files, restart_map, stopstart>>
    /\ UNCHANGED <<dockerVars, histVars, cfgVars, relVars, qVars, callVars>>

\* f writes or removes a watched file
GuardedWrite(path, content) ==
    /\ guardPc = "in_f"
    /\ files[path] # content
    /\ files' = [files EXCEPT ![path] = content]
    /\ UNCHANGED <<guardPc, restart_map, stopstart, checksums,
                   services_list, pending, called, before, results>>
    /\ UNCHANGED <<dockerVars, histVars, cfgVars, relVars, qVars, callVars>>

\* f raises: wrapped_f has no handler, the exception leaves it at line 258
GuardedRaise ==
    /\ guardPc = "in_f"
    /\ guardPc' = "raised"
    /\ UNCHANGED <<files, restart_map, stopstart, checksums,
                   services_list, pending, called, before, results>>
    /\ UNCHANGED <<dockerVars, histVars, cfgVars, relVars, qVars, callVars>>

\* f returns: lines 259-263
GuardedReturn ==
    /\ guardPc = "in_f"
    /\ services_list' = Restarts
    /\ pending' = ServiceCalls(services_list', stopstart)
    /\ called' = << <<"returned", "f">> >>
    /\ guardPc' = "calling"
    /\ UNCHANGED <<files, restart_map, stopstart, checksums, before, results>>
    /\ UNCHANGED <<dockerVars, histVars, cfgVars, relVars, qVars, callVars>>

\* lines 266 and 270: the value service() returns is dropped, the loop
\* goes on with the calls that are left
AfterServiceFailFast(service_result, rest) ==
    IF service_result.value = "False" THEN <<>> ELSE rest
AfterService(service_result, rest) == rest

\* one service(action, service_name), the command exiting 0 or 1
ServiceCall ==
    /\ guardPc = "calling"
    /\ pending # <<>>
    /\ called' = Append(called, Head(pending))
    /\ \E returncode \in {0, 1} :
        /\ results' = Append(results, host_service(returncode).value)
        /\ pending' = AfterService(host_service(returncode), Tail(pending))
    /\ UNCHANGED <<guardPc, files, restart_map, stopstart, checksums,
                   services_list, before>>
    /\ UNCHANGED <<dockerVars, histVars, cfgVars, relVars, qVars, callVars>>

\* wrapped_f returns
WrappedReturn ==
    /\ guardPc = "calling"
    /\ pending = <<>>
    /\ guardPc' = "done"
    /\ UNCHANGED <<files, restart_map, stopstart, checksums,
                   services_list, pending, called, before, results>>
    /\ UNCHANGED <<dockerVars, histVars, cfgVars, relVars, qVars, callVars>>

(***************************************************************************)
(* Specifications.                                                         *)
(***************************************************************************)
InitHook ==
    /\ peerRel = [u \in Units |-> "absent"]
    /\ pc = "idle"
    /\ event = "install"
    /\ exit = "none"
    /\ collected = <<>>
    /\ svcIdx = 1
    /\ container_id = NoId
    /\ cidFile = NoId
    /\ containers = [id \in ContainerIds |-> NoContainer]
    /\ cmds = <<>>
    /\ returned = {}
    /\ prev = Snapshot(FALSE)
    /\ lastStart = <<>>

\* no Config object yet, and no snapshot on disk
InitConfig ==
    /\ cfgPc = "none"
    /\ cur = EmptyDict
    /\ prevDict = NoPrev
    /\ cfgFile = NoFile
    /\ hadSnapshot = FALSE
    /\ touched = NoTouch
    /\ lastSave = NoSave
    /\ loadedFrom = NoFile

\* no process is building a provider query by query
InitNoQuery ==
    /\ qPc = "idle"
    /\ cache = EmptyCache
    /\ qIds = <<>>
    /\ qUnits = <<>>
    /\ qIdx = 1
    /\ qStored = <<>>
    /\ qExit = "none"
    /\ qSeen = NoneSeen

\* no function is being called
InitNoCall ==
    /\ call = NoCall
    /\ result = Pending

\* no decorated function has been called; the watched files do not exist
InitNoGuard ==
    /\ guardPc = "idle"
    /\ files = [path \in WatchedPaths |-> NoFileAt]
    /\ restart_map = <<"/etc/a.conf", "/etc/b.conf">>
    /\ stopstart = FALSE
    /\ checksums = [path \in WatchedPaths |-> HashNone]
    /\ services_list = <<>>
    /\ pending = <<>>
    /\ called = <<>>
    /\ before = files
    /\ results = <<>>

\* a decorator with either mode, a dict that yields its paths in either
\* order, and any watched files
InitGuard ==
    /\ guardPc = "idle"
    /\ files \in [WatchedPaths -> Contents \cup {NoFileAt}]
    /\ restart_map \in {<<"/etc/a.conf", "/etc/b.conf">>,
                        <<"/etc/b.conf", "/etc/a.conf">>}
    /\ stopstart \in BOOLEAN
    /\ checksums = [path \in WatchedPaths |-> HashNone]
    /\ services_list = <<>>
    /\ pending = <<>>
    /\ called = <<>>
    /\ before = files
    /\ results = <<>>

\* no relation beyond the peer relation of the hook
InitNoRelation ==
    /\ relIds = <<>>
    /\ relUnits = [rid \in RelNumbers |-> <<>>]
    /\ relData = [pair \in RelNumbers \X UnitNumbers |-> "addr"]
    /\ relStored = <<>>
    /\ relExit = "none"
    /\ relArgs = NotBuilt

\* whether the environment lists unit of relation id rid
Listed(rid, unit) ==
    /\ \E i \in 1..Len(relIds) : relIds[i] = rid
    /\ \E j \in 1..Len(relUnits[rid]) : relUnits[rid][j] = unit

\* any relation ids and units, listed in any order, with any answers
InitRelation ==
    /\ relIds \in Orderings(RelNumbers)
    /\ relUnits \in [RelNumbers -> Orderings(UnitNumbers)]
    /\ relData \in [RelNumbers \X UnitNumbers -> RelAnswers]
    /\ \A rid \in RelNumbers, unit \in UnitNumbers :
        ~Listed(rid, unit) => relData[<<rid, unit>>] = "addr"
    /\ \A rid \in RelNumbers :
        (\A i \in 1..Len(relIds) : relIds[i] # rid) => relUnits[rid] = <<>>
    /\ relStored = <<>>
    /\ relExit = "none"
    /\ relArgs = NotBuilt

\* a unit whose manager declares one service, as common.py does
Init ==
    /\ services \in {<<RethinkService>>, <<ProxyService>>}
    /\ InitHook
    /\ InitConfig
    /\ InitNoQuery
    /\ InitNoCall
    /\ InitNoGuard
    /\ InitNoRelation

\* the unit of common.py
InitCommon ==
    /\ services = <<RethinkService>>
    /\ InitHook
    /\ InitConfig
    /\ InitNoQuery
    /\ InitNoCall
    /\ InitNoGuard
    /\ InitNoRelation

\* a unit whose manager declares two services
InitMulti ==
    /\ services = <<RethinkService, ProxyService>>
    /\ InitHook
    /\ InitConfig
    /\ InitNoQuery
    /\ InitNoCall
    /\ InitNoGuard
    /\ InitNoRelation

\* the steps of the hook process after its start
HookStep ==
    \/ Gather
    \/ GatherRaises
    \/ ManageInvoke
    \/ ManageSkip
    \/ ManageDone
    \/ CallNoRecord
    \/ DockerStop
    \/ RemoveRecord
    \/ DockerRun
    \/ CallReturn

Environment == \E u \in Units, s \in UnitStates : PeerChange(u, s)

Next ==
    \/ \E e \in Events : Deliver(e)
    \/ HookStep
    \/ Environment

NextTracked ==
    \/ \E e \in Events : DeliverTracked(e)
    \/ HookStep
    \/ Environment

\* the invocations of a hook that uses the Config it gets
NextConfig ==
    \/ \E v \in OptionValues : ConfigInit([k \in OptionKeys |-> v])
    \/ \E k \in CfgKeys, v \in HookValues : SetItem(k, v)
    \/ \E k \in CfgKeys : DelItem(k)
    \/ Save

\* calls of a function decorated with restart_on_change
NextGuard ==
    \/ WrappedEnter
    \/ \E path \in WatchedPaths, content \in Contents \cup {NoFileAt} :
          GuardedWrite(path, content)
    \/ GuardedRaise
    \/ GuardedReturn
    \/ ServiceCall
    \/ WrappedReturn

\* a RelationContext is built
NextRelation ==
    \/ RelationContextInit
    \/ RelationContextRaises
    \/ RelationBuildArgs

\* hookenv.Hooks.execute: what happens to a hook name, given the registered
\* names
execute(hook_name, hooks) ==
    IF hook_name \in hooks THEN "handler" ELSE "UnregisteredHookError"

\* common.py __main__, lines 68-71: what happens to a hook name
main(hook_name) == IF hook_name = "install" THEN "install" ELSE "manage"

\* a hook name the charm has no hook for
UnknownEvents == {"no-such-hook"}

\* common.py run under any name, one it has no hook for included
NextAnyName ==
    \/ \E e \in Events \cup UnknownEvents : main(e) = "manage" /\ Deliver(e)
    \/ HookStep
    \/ Environment

\* one process after the other builds ClusterPeers while peers join, publish
\* their address and depart; every answer of relation-get parses
NextQuery ==
    \/ QueryStart
    \/ QueryRelationIds
    \/ QueryRelatedUnits
    \/ QueryRelationGet
    \/ QueryRelationGetFails
    \/ \E u \in Units, s \in UnitStates \ {"bad"} : PeerChange(u, s)

vars == <<dockerVars, histVars, cfgVars, guardVars, relVars, qVars, callVars>>

SpecQuery == InitCommon /\ [][NextQuery]_vars

\* the same processes, whose hooks also call relation_for_unit
NextForUnit ==
    \/ NextQuery
    \/ \E u \in Units : RelationForUnit(u)

SpecForUnit == InitCommon /\ [][NextForUnit]_vars

SpecAnyName == InitCommon /\ [][NextAnyName]_vars

\* the hook on a host whose docker runtime is used by others as well; the
\* peers are absent or have published their address, so get_data never
\* meets None
NextExternal ==
    \/ \E e \in Events : Deliver(e)
    \/ Gather
    \/ ManageInvoke
    \/ ManageSkip
    \/ ManageDone
    \/ CallNoRecord
    \/ DockerStop
    \/ RemoveRecord
    \/ DockerRun
    \/ CallReturn
    \/ \E u \in Units, s \in {"absent", "addr"} : PeerChange(u, s)
    \/ \E id \in ContainerIds : ExternalRun(id)
    \/ \E id \in ContainerIds : ExternalRemove(id)

SpecExternal == InitCommon /\ [][NextExternal]_vars

\* a call of one of the functions, with any arguments
InitCalls ==
    /\ services = <<RethinkService>>
    /\ InitHook
    /\ InitConfig
    /\ InitNoQuery
    /\ InitNoGuard
    /\ InitNoRelation
    /\ call \in CliPeersCalls \cup RunCalls \cup CheckCallCalls \cup HostServiceCalls
    /\ result = Pending

NextCalls ==
    \/ CallCliPeers
    \/ CallRun
    \/ CallCheckCall
    \/ CallService

SpecCalls == InitCalls /\ [][NextCalls]_vars

InitRelated ==
    /\ services = <<RethinkService>>
    /\ InitHook
    /\ InitConfig
    /\ InitNoQuery
    /\ InitNoCall
    /\ InitNoGuard
    /\ InitRelation

SpecRelation == InitRelated /\ [][NextRelation]_vars

InitGuarded ==
    /\ services = <<RethinkService>>
    /\ InitHook
    /\ InitConfig
    /\ InitNoQuery
    /\ InitNoCall
    /\ InitGuard
    /\ InitNoRelation

SpecGuard == InitGuarded /\ [][NextGuard]_vars

Spec == Init /\ [][Next]_vars

SpecMulti == InitMulti /\ [][Next]_vars

SpecConfig == InitCommon /\ [][NextConfig]_vars

\* Spec with the inputs of the previous invocation kept in prev
SpecTracked == Init /\ [][NextTracked]_vars

(***************************************************************************)
(* Properties of the lifecycle callback and of manage().                   *)
(***************************************************************************)
\* the hook process sits between two statements of the callback
InCallback == pc \in {"call", "remove", "event"}

\* the last invocation ran to its end and exited 0
Completed == pc = "idle" /\ exit = "ok"

\* the callback of the (single) service of this unit has returned
CallbackReturned == pc \in {"manage", "idle"} /\ returned # {}

RunCommands == {i \in 1..Len(cmds) : cmds[i].cmd = "run"}
StopCommands == {i \in 1..Len(cmds) : cmds[i].cmd = "stop"}

\* C1: when the callback is entered on a start event with a record present
\* (container_id holds the recorded id), no record exists at the moment the
\* run command is issued (pc = "event"), and every run command of the
\* invocation directly follows the stop command for the recorded id.
C1_StopBeforeRun ==
    /\ pc = "event" => cidFile = NoId
    /\ \A i \in RunCommands :
          container_id # NoId =>
             /\ i > 1
             /\ cmds[i - 1].cmd = "stop"
             /\ cmds[i - 1].id = container_id
             /\ cmds[i - 1].id = prev.record

\* a start invocation found a record, stopped it and launched a new instance
C1_Witness ==
    /\ Completed /\ event = "start"
    /\ container_id # NoId
    /\ Len(cmds) = 2 /\ cmds[1].cmd = "stop" /\ cmds[2].cmd = "run"
    /\ cidFile \notin {NoId, container_id}

\* the record the callback finds for a service: the path it tests does not
\* depend on service_name
RecordsOf(service) == IF RecordExists THEN {cidFile} ELSE {}

\* no live container was launched from the service's image
Stopped(service) == \A id \in ContainerIds : containers[id].image # service.service

\* C2: after every invocation that ran to its end, every declared service
\* has at most one instance record, and has none exactly when it is stopped.
C2_RecordIffRunning ==
    Completed =>
       \A i \in 1..Len(services) :
          /\ Cardinality(RecordsOf(services[i])) <= 1
          /\ RecordsOf(services[i]) = {} <=> Stopped(services[i])

\* C3: once the callback has returned from an event other than start, no
\* run command was issued, no record exists and no instance is live.
C3_OtherEventStops ==
    (CallbackReturned /\ event # "start") =>
       /\ RunCommands = {}
       /\ cidFile = NoId
       /\ \A i \in 1..Len(services) : Stopped(services[i])

\* the callback returned from another event after stopping a recorded instance
C3_Witness ==
    /\ CallbackReturned /\ event = "config-changed"
    /\ container_id # NoId /\ prev.record = container_id
    /\ cmds = <<[cmd |-> "stop", id |-> container_id,
                 image |-> services[1].service, args |-> <<>>]>>

\* the segment a provider's fragments belong to
Segment(provider) ==
    CASE provider.cls = "DockerVolumes"       -> "volumes"
      [] provider.cls = "DockerPortMappings"  -> "ports"
      [] provider.cls = "DockerContainerArgs" -> "container"
      [] provider.cls = "ClusterPeers"        -> "container"

\* the fragments of the providers of one segment, in declaration order
SegmentArgs(service, segment, data) ==
    LET req == service.required_data
        mine == SelectSeq(req, LAMBDA p : Segment(p) = segment)
    IN  Concat([i \in 1..Len(mine) |-> build_args(mine[i], data)])

RECURSIVE SumLen(_)
SumLen(ss) == IF ss = <<>> THEN 0 ELSE Len(Head(ss)) + SumLen(Tail(ss))

ServiceNamed(image) ==
    CHOOSE sv \in {services[i] : i \in 1..Len(services)} : sv.service = image

\* C4: every run command issued is the run prefix with the instance-id-file
\* flag, the volume fragments, the port fragments, the image, then the
\* container-argument fragments (relation fragments among them), each
\* provider's fragments once and in declaration order within its segment.
C4_RunArgumentOrder ==
    \A i \in RunCommands :
       LET sv == ServiceNamed(cmds[i].image)
           req == sv.required_data
       IN /\ cmds[i].args =
                <<"docker", "run", "-d", "-cidfile", "/charm/CONTAINER_ID">>
                \o SegmentArgs(sv, "volumes", collected)
                \o SegmentArgs(sv, "ports", collected)
                \o <<sv.service>>
                \o SegmentArgs(sv, "container", collected)
          /\ Len(cmds[i].args) =
                6 + SumLen([k \in 1..Len(req) |-> build_args(req[k], collected)])

\* a run command was issued for the service that declares its relation
\* provider first, with two peers collected
C4_Witness ==
    /\ RunCommands # {}
    /\ services[1] = ProxyService
    /\ Len(collected) = 2
    /\ cmds[Len(cmds)].args[Len(cmds[Len(cmds)].args)] = "--verbose"

ExpectedRun(sv, data) ==
    <<"docker", "run", "-d", "-cidfile", "/charm/CONTAINER_ID">>
    \o SegmentArgs(sv, "volumes", data)
    \o SegmentArgs(sv, "ports", data)
    \o <<sv.service>>
    \o SegmentArgs(sv, "container", data)

\* every collected peer is joined by the arguments, and nothing else is
JoinsExactly(args, data) ==
    /\ \A i \in 1..Len(data) :
          \E j \in 2..Len(args) :
             /\ args[j - 1] = "--join"
             /\ args[j] = data[i]["private-address"] \o ":29015"
    /\ Cardinality({j \in 1..Len(args) : args[j] = "--join"}) = Len(data)

StopCommand(id) ==
    [cmd |-> "stop", id |-> id, image |-> services[1].service, args |-> <<>>]
RunCommand(data) ==
    [cmd |-> "run", id |-> NoId, image |-> services[1].service,
     args |-> ExpectedRun(services[1], data)]

\* C8 as stated: a completed start invocation that called the callback
\* issued nothing when the running instance already had the desired
\* arguments, only a run when nothing ran, and stop then run otherwise.
C8_MinimalAction ==
    (Completed /\ event = "start" /\ returned # {}) =>
       cmds = IF prev.record = NoId THEN <<RunCommand(collected)>>
              ELSE IF prev.args = ExpectedRun(services[1], collected) THEN <<>>
              ELSE <<StopCommand(prev.record), RunCommand(collected)>>

\* C8 amended: a completed invocation issued nothing when it was skipped;
\* when the callback was called it issued the stop of the recorded
\* instance exactly when a record existed, and then, on a start event, the
\* run command, whether or not the running instance matched.
C8_StopThenStart ==
    Completed =>
       cmds = (IF returned # {} /\ prev.record # NoId
               THEN <<StopCommand(prev.record)>> ELSE <<>>)
              \o (IF returned # {} /\ event = "start"
                  THEN <<RunCommand(collected)>> ELSE <<>>)

\* a start invocation stopped and relaunched an instance that already had
\* the desired arguments
C8_Witness ==
    /\ Completed /\ event = "start" /\ returned # {}
    /\ prev.record # NoId
    /\ prev.args = ExpectedRun(services[1], collected)
    /\ Len(cmds) = 2

\* C9: when two consecutive completed invocations had the same event and
\* collected the same provider data, the second left the record present or
\* absent as the first did, with the same launch arguments.
C9_Idempotent ==
    (Completed /\ prev.exit = "ok" /\ prev.event = event /\ prev.data = collected) =>
       /\ cidFile = NoId <=> prev.record = NoId
       /\ cidFile # NoId => containers[cidFile].args = prev.args

\* a start event ran twice on the same data: the instance was relaunched
\* with the arguments it had
C9_Witness ==
    /\ Completed /\ event = "start" /\ returned # {}
    /\ prev.exit = "ok" /\ prev.event = "start" /\ prev.data = collected
    /\ prev.record # NoId /\ cidFile \notin {NoId, prev.record}
    /\ containers[cidFile].args = prev.args

(***************************************************************************)
(* Re-evaluation after a skipped invocation.                               *)
(***************************************************************************)
\* a hook process, once started, runs to its end: it is single-threaded and
\* synchronous, and nothing in it waits
FairSpec == InitCommon /\ [][Next]_vars /\ WF_vars(HookStep)

\* what the relation holds makes the provider ready when it is read
EnvReady ==
    /\ \A u \in Units : peerRel[u] # "bad"
    /\ \E u \in Units : peerRel[u] = "addr"

StartDelivered == pc = "gather" /\ event = "start"

NoCommandFailed == exit # "CalledProcessError"

\* a start invocation called the callback, completed, and left a recorded
\* live instance
RunningAfterStart ==
    /\ Completed /\ event = "start" /\ returned # {}
    /\ cidFile # NoId
    /\ containers[cidFile].image = services[1].service

\* C6: if from some point on the relation makes the provider ready and no
\* docker command fails, and start events keep being delivered, then start
\* invocations keep ending with the service RUNNING, whatever earlier
\* invocations skipped or left behind.
C6_SkippedIsRetried ==
    (<>[]EnvReady /\ <>[]NoCommandFailed /\ []<>StartDelivered)
        => []<>RunningAfterStart

\* the service is RUNNING after a start invocation that followed a
\* completed invocation skipped for want of a ready peer
C6_Witness ==
    /\ RunningAfterStart
    /\ prev.exit = "ok" /\ ~prev.called
    /\ prev.record = NoId

(***************************************************************************)
(* Properties of the persistent config.                                    *)
(***************************************************************************)
\* keys asked about: those a mapping may hold and one that none holds
AskedKeys == CfgKeys \cup {"no-such-key"}

\* C10: in an invocation whose Config was built with no snapshot file on
\* disk, changed(key) is true for every key, present or not, whatever was
\* assigned, deleted or saved since.
C10_FirstInvocationAllChanged ==
    (cfgPc = "live" /\ ~hadSnapshot) => \A key \in AskedKeys : changed(key)

\* the first invocation has saved: the file exists now, a key is absent
\* from the mapping, and changed still answers true
C10_Witness ==
    /\ cfgPc = "live" /\ ~hadSnapshot
    /\ cfgFile.exists
    /\ "mykey" \notin DOMAIN cur
    /\ "storage-path" \in DOMAIN cur /\ cur["storage-path"] = PyNone
    /\ \A key \in AskedKeys : changed(key)

\* the value the latest save() handed to json.dump for key: the mapping's
\* own value, else the one reinserted from _prev_dict, else none
SavedValue(key) ==
    IF key \in DOMAIN lastSave.cur THEN lastSave.cur[key]
    ELSE DictGet(lastSave.prev, key)

\* this Config loaded the file of the latest save(), made by an earlier
\* invocation, and has not saved since
LoadedLastSave == cfgPc = "live" /\ hadSnapshot /\ ~touched.saved

\* C11: after a save in one invocation and a load in the next, changed(key)
\* is false for every key whose current value equals the value that was
\* saved and true for every key whose current value differs from it.
C11_ChangedIffDiffers ==
    LoadedLastSave =>
        \A key \in AskedKeys :
            changed(key) <=> (DictGet(cur, key) # SavedValue(key))

\* C11 for the values json keeps as they are: strings and None
JsonKeeps(v) == JsonValue(v) = v
C11_ChangedIffDiffersJsonNative ==
    (LoadedLastSave /\ \A k \in CfgKeys : JsonKeeps(SavedValue(k))) =>
        \A key \in AskedKeys :
            changed(key) <=> (DictGet(cur, key) # SavedValue(key))

\* C12: within one invocation previous(key) answers from the snapshot as it
\* was in the file when the Config was built, and changed(key) compares the
\* current value with that snapshot only, whatever has been assigned,
\* deleted or saved since; with no file at that time the snapshot stays None.
C12_SnapshotFrozen ==
    cfgPc = "live" =>
        /\ prevDict.loaded = loadedFrom.exists
        /\ prevDict.dict = loadedFrom.dict
        /\ \A key \in AskedKeys :
            /\ previous(key) = DictGet(loadedFrom.dict, key)
            /\ loadedFrom.exists =>
                (changed(key) <=>
                    DictGet(loadedFrom.dict, key) # DictGet(cur, key))

\* the invocation has assigned, deleted and saved, the file no longer holds
\* what was loaded, and previous still answers from what was loaded
C12_Witness ==
    /\ cfgPc = "live" /\ hadSnapshot
    /\ touched.saved /\ touched.assigned # {} /\ touched.deleted # {}
    /\ cfgFile.dict # loadedFrom.dict
    /\ \E key \in CfgKeys :
        /\ previous(key) # DictGet(cfgFile.dict, key)
        /\ previous(key) # DictGet(cur, key)
        /\ previous(key) # PyNone

\* C13: the file written by the latest save() holds every key the mapping
\* had when save() was called, with the json form of its value, and every
\* key of the prior snapshot the mapping did not have, with its prior value;
\* so the Config built from that file by the next invocation has every key
\* of the prior snapshot, and a key the hook had deleted is back with its
\* prior value.
C13_SaveMergesPrior ==
    lastSave.done =>
        /\ cfgFile.exists
        /\ DOMAIN cfgFile.dict = DOMAIN lastSave.cur \cup DOMAIN lastSave.prev
        /\ \A k \in DOMAIN lastSave.cur :
            cfgFile.dict[k] = JsonValue(lastSave.cur[k])
        /\ \A k \in DOMAIN lastSave.prev \ DOMAIN lastSave.cur :
            cfgFile.dict[k] = lastSave.prev[k]
        /\ \A k \in lastSave.deleted \cap DOMAIN lastSave.prev :
            cfgFile.dict[k] = lastSave.prev[k]
        /\ LoadedLastSave =>
            /\ DOMAIN lastSave.prev \subseteq DOMAIN prevDict.dict
            /\ \A k \in DOMAIN lastSave.prev \ DOMAIN lastSave.cur :
                previous(k) = lastSave.prev[k]

\* the next invocation sees a key of the prior snapshot that the saving
\* invocation never had in its mapping, and one that it had deleted
C13_Witness ==
    /\ LoadedLastSave
    /\ "mykey" \in DOMAIN lastSave.prev \ DOMAIN lastSave.cur
    /\ "mykey" \notin lastSave.deleted
    /\ "storage-path" \in lastSave.deleted \cap DOMAIN lastSave.prev
    /\ "storage-path" \notin DOMAIN lastSave.cur
    /\ previous("mykey") = lastSave.prev["mykey"]
    /\ previous("storage-path") = lastSave.prev["storage-path"]
    /\ previous("mykey") # PyNone /\ previous("storage-path") # PyNone

\* keys of the prior snapshot that the hook deleted from the mapping and
\* that were still missing when the latest save() was called
DeletedBeforeSave ==
    (lastSave.deleted \cap DOMAIN lastSave.prev) \ DOMAIN lastSave.cur

\* C14 as stated: a key of the prior snapshot deleted from the mapping
\* before save() is in neither the file save() wrote nor the snapshot the
\* next invocation loads, and every other key of the prior snapshot is kept.
C14_DeletedKeyDropped ==
    lastSave.done =>
        /\ \A k \in DeletedBeforeSave :
            /\ k \notin DOMAIN cfgFile.dict
            /\ LoadedLastSave => k \notin DOMAIN prevDict.dict
        /\ \A k \in DOMAIN lastSave.prev \ DeletedBeforeSave :
            k \in DOMAIN cfgFile.dict

\* C14, amended: save() drops no key of the prior snapshot; a key deleted
\* from the mapping before save() is written with its prior value and is in
\* the snapshot the next invocation loads.
C14_NoPriorKeyDropped ==
    lastSave.done =>
        /\ \A k \in DOMAIN lastSave.prev :
            /\ k \in DOMAIN cfgFile.dict
            /\ LoadedLastSave => k \in DOMAIN prevDict.dict
        /\ \A k \in DeletedBeforeSave :
            /\ cfgFile.dict[k] = lastSave.prev[k]
            /\ LoadedLastSave => previous(k) = lastSave.prev[k]

\* the hook deleted a key of the prior snapshot and saved: the key is in the
\* file and back in the mapping
C14_Witness ==
    /\ cfgPc = "live" /\ hadSnapshot /\ touched.saved
    /\ "mykey" \in DeletedBeforeSave
    /\ "mykey" \in touched.deleted
    /\ "mykey" \in DOMAIN cfgFile.dict
    /\ "mykey" \in DOMAIN cur

\* C15: a key that a hook added to the config and saved is in the Config
\* the next invocation gets from hookenv.config(), with the saved value (in
\* its json form), before that invocation assigns, deletes or saves.
C15_AddedKeyPreserved ==
    (LoadedLastSave /\ touched = NoTouch) =>
        \A key \in HookKeys \cap DOMAIN lastSave.cur :
            /\ key \in DOMAIN cur
            /\ cur[key] = JsonValue(SavedValue(key))

(***************************************************************************)
(* Properties of restart_on_change.                                        *)
(***************************************************************************)
Range(seq) == {seq[i] : i \in 1..Len(seq)}

\* f has returned and restarts has been computed
AfterGuarded == guardPc \in {"calling", "done"}

\* the paths whose hash now differs from the one taken before f
ChangedPaths == {path \in WatchedPaths : checksums[path] # file_hash(path)}

\* where a service is first met when the changed paths are walked in the
\* order of restart_map, each with its list of services
FirstSeen(service) ==
    LET at == {i * 10 + k : i \in 1..Len(restart_map), k \in 1..3}
        met == {n \in at :
                  LET i == n \div 10
                      k == n % 10
                  IN /\ restart_map[i] \in ChangedPaths
                     /\ k <= Len(RestartMap(restart_map[i]))
                     /\ RestartMap(restart_map[i])[k] = service}
    IN CHOOSE n \in met : \A other \in met : n <= other

\* the service() calls of the pass, without the mark of f's return
ServiceActions == SelectSeq(called, LAMBDA c : c[1] # "returned")
TimesCalled(action, service) ==
    Cardinality({i \in 1..Len(ServiceActions) :
                   ServiceActions[i] = <<action, service>>})

\* C16: once f has returned, the restart list holds exactly the services
\* mapped to a path whose hash differs from the one taken before f, each
\* once, in the order they are first met; no other service is ever acted
\* on, and a completed pass has acted once per action on each listed service.
C16_RestartSet ==
    AfterGuarded =>
        /\ Range(services_list) = UNION {Range(RestartMap(path)) : path \in ChangedPaths}
        /\ \A i, j \in 1..Len(services_list) :
            i < j => /\ services_list[i] # services_list[j]
                     /\ FirstSeen(services_list[i]) < FirstSeen(services_list[j])
        /\ \A i \in 1..Len(ServiceActions) :
            ServiceActions[i][2] \in Range(services_list)
        /\ \A service \in Range(services_list) :
            \A action \in {"restart", "stop", "start"} :
                /\ TimesCalled(action, service) <= 1
                /\ guardPc = "done" =>
                    TimesCalled(action, service) =
                        IF stopstart = (action # "restart") THEN 1 ELSE 0

\* only /etc/a.conf changed: api and volume were restarted once each,
\* scheduler was not
C16_Witness ==
    /\ guardPc = "done" /\ ~stopstart
    /\ ChangedPaths = {"/etc/a.conf"}
    /\ before["/etc/b.conf"] # NoFileAt
    /\ services_list = <<"api", "volume">>
    /\ ServiceActions = << <<"restart", "api">>, <<"restart", "volume">> >>

\* the services a pass has acted on with one action, in call order
Pass(action) ==
    LET calls == SelectSeq(ServiceActions, LAMBDA c : c[1] = action)
    IN [i \in 1..Len(calls) |-> calls[i][2]]

IsPrefix(a, b) == Len(a) <= Len(b) /\ a = SubSeq(b, 1, Len(a))

\* C17: no service() call is made before f has returned, nor when f raised.
\* In stop/start mode the stops are made in the order of the restart list,
\* a start is made only once every listed service has been stopped, and
\* the starts follow the same order; otherwise each listed service gets a
\* single restart, in that order.
C17_StopAllThenStartAll ==
    /\ guardPc \in {"in_f", "raised"} => called = <<>>
    /\ called # <<>> => called[1] = <<"returned", "f">>
    /\ AfterGuarded =>
        /\ stopstart =>
            /\ Pass("restart") = <<>>
            /\ IsPrefix(Pass("stop"), services_list)
            /\ IsPrefix(Pass("start"), services_list)
            /\ Pass("start") # <<>> => Pass("stop") = services_list
            /\ \A i, j \in 1..Len(ServiceActions) :
                (ServiceActions[i][1] = "stop" /\ ServiceActions[j][1] = "start")
                    => i < j
            /\ guardPc = "done" => Pass("start") = services_list
        /\ ~stopstart =>
            /\ Pass("stop") = <<>> /\ Pass("start") = <<>>
            /\ IsPrefix(Pass("restart"), services_list)
            /\ guardPc = "done" => Pass("restart") = services_list

\* a stop/start pass over three services is half way: all three stopped,
\* the first one started
C17_Witness ==
    /\ guardPc = "calling" /\ stopstart
    /\ Len(services_list) = 3
    /\ Pass("stop") = services_list
    /\ Pass("start") = <<services_list[1]>>

\* what f did to a watched path
Created(path) == before[path] = NoFileAt /\ files[path] # NoFileAt
Deleted(path) == before[path] # NoFileAt /\ files[path] = NoFileAt
Untouched(path) == before[path] = files[path]

\* C18: the hash of a missing path is none of the content hashes; once f
\* has returned, the services of every watched path that f created or
\* deleted are in the restart list, and a service whose paths are all as
\* they were before f (missing ones still missing) is not.
C18_AbsentIsSentinel ==
    /\ \A content \in Contents : Md5(content) # HashNone
    /\ \A path \in WatchedPaths :
        (file_hash(path) = HashNone) <=> (files[path] = NoFileAt)
    /\ AfterGuarded =>
        /\ \A path \in WatchedPaths :
            (Created(path) \/ Deleted(path)) =>
                Range(RestartMap(path)) \subseteq Range(services_list)
        /\ \A service \in Range(services_list) :
            \E path \in WatchedPaths :
                /\ service \in Range(RestartMap(path))
                /\ ~Untouched(path)

\* f created /etc/a.conf as an empty file and left /etc/b.conf missing:
\* the services of /etc/a.conf, and only they, are restarted
C18_Witness ==
    /\ guardPc = "done"
    /\ Created("/etc/a.conf") /\ files["/etc/a.conf"] = ""
    /\ before["/etc/b.conf"] = NoFileAt /\ files["/etc/b.conf"] = NoFileAt
    /\ services_list = <<"api", "volume">>
    /\ Len(ServiceActions) >= 2

(***************************************************************************)
(* Properties of RelationContext.                                          *)
(***************************************************************************)
\* the listed (rid, unit) pairs whose relation data has the required keys
CompleteUnits ==
    {pair \in RelNumbers \X UnitNumbers :
        Listed(pair[1], pair[2]) /\ relData[pair] = "addr"}

\* the listed pairs whose relation data lacks a required key
IncompleteUnits ==
    {pair \in RelNumbers \X UnitNumbers :
        Listed(pair[1], pair[2]) /\ relData[pair] = "other"}

\* the unit a stored mapping came from, told by its address
Origin(unit_data) ==
    CHOOSE pair \in RelNumbers \X UnitNumbers :
        RelAddr(pair[1], pair[2]) = unit_data["private-address"]

\* C19: a RelationContext that was built is ready exactly when some listed
\* unit has all required keys; every mapping it holds has all required
\* keys and comes from such a unit, each such unit is held once, and the
\* arguments built from it are one --join per held unit: a unit lacking a
\* required key is not held and gives no argument.
C19_ReadyIffCompleteUnit ==
    relExit = "ok" =>
        /\ \A i \in 1..Len(relStored) :
            ClusterPeers.required_keys \subseteq DOMAIN relStored[i]
        /\ is_ready(relStored) <=> (CompleteUnits # {})
        /\ {Origin(relStored[i]) : i \in 1..Len(relStored)} = CompleteUnits
        /\ Len(relStored) = Cardinality(CompleteUnits)
        /\ LET args == RelationArgs(ClusterPeers, relStored)
           IN /\ Len(args) = 2 * Cardinality(CompleteUnits)
              /\ \A i \in 1..Len(relStored) :
                  /\ args[2 * i - 1] = "--join"
                  /\ args[2 * i] = relStored[i]["private-address"] \o ":29015"

\* two units on the relation, one with private-address and one without:
\* the provider is ready and holds only the first
C19_Witness ==
    /\ relExit = "ok"
    /\ Cardinality(CompleteUnits) = 1
    /\ IncompleteUnits # {}
    /\ Len(relStored) = 1
    /\ is_ready(relStored)

UnparseableUnits ==
    {pair \in RelNumbers \X UnitNumbers :
        Listed(pair[1], pair[2]) /\ relData[pair] = "bad"}

\* C21: when the answer of relation-get for a listed unit cannot be parsed,
\* building the provider still completes, the unit is not held, and the
\* provider is ready only if some other unit is complete.
C21_UnparseableIsNoData ==
    (relExit # "none" /\ UnparseableUnits # {}) =>
        /\ relExit = "ok"
        /\ Len(relStored) = Cardinality(CompleteUnits)
        /\ is_ready(relStored) <=> (CompleteUnits # {})

(***************************************************************************)
(* Properties of a provider built while the relation changes.              *)
(***************************************************************************)
\* the relation data of the units that had all required keys when this
\* process asked about them, in the order asked
SeenComplete ==
    LET complete == SelectSeq(qSeen.data, LAMBDA seen : seen[2] = "addr")
    IN [i \in 1..Len(complete) |->
          [k \in {"private-address"} |-> Addr(complete[i][1])]]

QueryEnded == qPc \in {"done", "failed"}

\* C22: however the joining, publishing and departing of peers falls between
\* the queries of a process, the process ends without error and holds
\* exactly the units that had all required keys when asked about.
C22_MidUpdateTolerated ==
    QueryEnded => (qExit = "ok" /\ qStored = SeenComplete)

\* C23: the cache is empty when a process makes its first query, so what
\* get_data works with is what the environment held at each of its own
\* queries, and a provider that was built is ready exactly when a unit had
\* all required keys when this process asked about it.
C23_NothingCachedAcrossInvocations ==
    /\ qPc = "ids" => cache = EmptyCache
    /\ qPc \in {"units", "get", "done", "failed"} => qIds = qSeen.ids
    /\ qPc \in {"get", "failed"} => qUnits = qSeen.units
    /\ (qPc = "done" /\ qIds # <<>>) => qUnits = qSeen.units
    /\ (qPc = "done" /\ qExit = "ok") =>
        /\ qStored = SeenComplete
        /\ is_ready(qStored) <=>
              \E i \in 1..Len(qSeen.data) : qSeen.data[i][2] = "addr"

\* the process before this one held a peer; this one found the peer without
\* its address and is not ready
C23_Witness ==
    /\ qPc = "done" /\ qExit = "ok"
    /\ is_ready(qSeen.last)
    /\ qSeen.units # <<>>
    /\ ~is_ready(qStored)

(***************************************************************************)
(* Properties of the dispatch.                                             *)
(***************************************************************************)
\* C24: an invocation under a name that is not in the dispatch table ends
\* with the unregistered-hook error, calls no handler, issues no docker
\* command and leaves the instance record as it was; so it never completes.
C24_UnknownEventIsFatal ==
    (Completed /\ event \in UnknownEvents) =>
        /\ exit = execute(event, Events \cup {"install"})
        /\ returned = {}
        /\ cmds = <<>>
        /\ cidFile = prev.record

\* an invocation under an unknown name has completed after stopping the
\* recorded instance
UnknownEventStopped ==
    /\ Completed /\ event \in UnknownEvents
    /\ prev.record # NoId /\ cidFile = NoId
    /\ Len(cmds) = 1 /\ cmds[1].cmd = "stop"

(***************************************************************************)
(* Properties of cli_peers and of the command wrappers.                    *)
(***************************************************************************)
\* the string of n --join pairs, built from its last pair backwards
RECURSIVE JoinPairs(_, _, _)
JoinPairs(peers, port, n) ==
    IF n = 0 THEN ""
    ELSE IF n = 1 THEN "--join " \o peers[1] \o ":" \o ToString(port)
    ELSE JoinPairs(peers, port, n - 1)
         \o " --join " \o peers[n] \o ":" \o ToString(port)

\* C25: for a peer list of any length and any port, cli_peers returns the
\* --join peer:port pairs of the peers, in the order of the list, with one
\* space between any two tokens, and the empty string for the empty list.
C25_CliPeers ==
    (call.fn = "cli_peers" /\ result.done) =>
        /\ result.raised = "nothing"
        /\ result.value = JoinPairs(call.peers, call.port, Len(call.peers))
        /\ call.peers = <<>> => result.value = ""

\* the three units of test_peers_3units, in an order that is not sorted
C25_Witness ==
    /\ call.fn = "cli_peers" /\ result.done
    /\ call.peers = <<"db", "10.0.0.11", "10.0.0.10">>
    /\ call.port = 7000
    /\ result.value = "--join db:7000 --join 10.0.0.11:7000 --join 10.0.0.10:7000"

\* the call asked for tolerant mode: fatal=False to run, or host.service,
\* which returns a boolean
TolerantRequested ==
    \/ call.fn = "run" /\ call.fatal = "False"
    \/ call.fn = "service"

\* C27: a wrapped command that exits non-zero raises, unless the call asked
\* for tolerant mode; then the failure is returned and nothing is raised.
C27_FatalByDefault ==
    (call.fn \in {"run", "check_call", "service"} /\ result.done
        /\ call.returncode # 0) =>
        IF TolerantRequested
        THEN result.raised = "nothing" /\ result.value # "0" /\ result.value # "True"
        ELSE result.raised = "CalledProcessError"

(***************************************************************************)
(* Properties of DockerRelation.build_args.                                *)
(***************************************************************************)
\* the listed pairs with the required keys, in the order get_data asks
CollectedPairs == SelectSeq(Visited, LAMBDA pair : relData[pair] = "addr")

\* C26: the arguments a relation provider builds are the fragments its
\* mapping gives for the collected units, one fragment after the other in
\* collection order, and nothing else: ClusterPeers gives --join
\* address:port per collected unit, the default mapping gives
\* --private-address address per collected unit, and a provider that
\* collected no unit gives the empty list.
C26_BuildArgs ==
    relArgs.built =>
        /\ Len(relArgs.cluster) = 2 * Len(CollectedPairs)
        /\ Len(relArgs.plain) = 2 * Len(CollectedPairs)
        /\ \A i \in 1..Len(CollectedPairs) :
            LET address == RelAddr(CollectedPairs[i][1], CollectedPairs[i][2])
            IN /\ relArgs.cluster[2 * i - 1] = "--join"
               /\ relArgs.cluster[2 * i] = address \o ":29015"
               /\ relArgs.plain[2 * i - 1] = "--private-address"
               /\ relArgs.plain[2 * i] = address
        /\ CollectedPairs = <<>> =>
            (relArgs.cluster = <<>> /\ relArgs.plain = <<>>)

\* three units collected over two relation ids and a fourth that lacks the
\* key: six arguments, none for the fourth
C26_Witness ==
    /\ relArgs.built
    /\ Len(CollectedPairs) = 3
    /\ IncompleteUnits # {}
    /\ Len(relArgs.cluster) = 6
    /\ relArgs.plain[5] = "--private-address"

(***************************************************************************)
(* Properties of a failing docker stop.                                    *)
(***************************************************************************)
\* the invocation ended because its docker stop failed
StopAborted ==
    /\ pc = "idle"
    /\ exit = "CalledProcessError"
    /\ cmds # <<>>
    /\ cmds[Len(cmds)].cmd = "stop"

\* the callback has been entered in this invocation and got past line 65
PastRecordTest == pc \in {"remove", "event"} \/ cmds # <<>> \/ returned # {}

\* C28: when docker stop fails the invocation ends there: the record file
\* still names the container the stop was for, the failed stop is the last
\* command and no docker run was issued; when the callback is called in the
\* invocation after it, its first command is docker stop of that container.
C28_FailedStopKeepsRecord ==
    /\ StopAborted =>
        /\ cidFile # NoId
        /\ cidFile = prev.record
        /\ cidFile = cmds[Len(cmds)].id
        /\ \A i \in 1..Len(cmds) : cmds[i].cmd # "run"
    /\ (prev.exit = "CalledProcessError" /\ prev.record # NoId /\ PastRecordTest) =>
        /\ cmds # <<>>
        /\ cmds[1].cmd = "stop"
        /\ cmds[1].id = prev.record

\* a start whose stop failed is followed by a start that stops the same
\* container, this time with success, and runs a new one
C28_Witness ==
    /\ prev.exit = "CalledProcessError"
    /\ prev.record # NoId
    /\ Completed
    /\ event = "start"
    /\ Len(cmds) = 2
    /\ cmds[1].cmd = "stop" /\ cmds[1].id = prev.record
    /\ cmds[2].cmd = "run"
    /\ cidFile # prev.record

(***************************************************************************)
(* Properties of restart_on_change when service() fails.                   *)
(***************************************************************************)
\* the service() calls of the pass that returned False
FailedCalls == {i \in 1..Len(results) : results[i] = "False"}

\* C30: a service() call that fails does not end the pass: wrapped_f never
\* ends with an exception once f has returned, and when it has returned,
\* every service of the restart list has received each action of the mode,
\* however many calls failed; in stop/start mode a service whose stop
\* failed has received its start after it.
C30_FailedActionTolerated ==
    /\ Len(results) = Len(ServiceActions)
    /\ guardPc = "raised" => (called = <<>> /\ results = <<>>)
    /\ guardPc = "done" =>
        /\ Len(ServiceActions) =
               (IF stopstart THEN 2 ELSE 1) * Len(services_list)
        /\ \A i \in 1..Len(services_list) :
            IF stopstart
            THEN /\ ServiceActions[i] = <<"stop", services_list[i]>>
                 /\ ServiceActions[Len(services_list) + i] =
                        <<"start", services_list[i]>>
            ELSE ServiceActions[i] = <<"restart", services_list[i]>>

\* a stop/start pass over three services in which the first stop failed,
\* and the last start too: all six calls were made
C30_Witness ==
    /\ guardPc = "done" /\ stopstart
    /\ Len(services_list) = 3
    /\ {1, 6} \subseteq FailedCalls
    /\ ServiceActions[1] = <<"stop", services_list[1]>>
    /\ ServiceActions[4] = <<"start", services_list[1]>>
    /\ Len(ServiceActions) = 6

(***************************************************************************)
(* Properties of the callback on a runtime that others use.                *)
(***************************************************************************)
\* the commands that follow from the record file the invocation found, the
\* event and the collected relation data
CommandsOf(record, event_name, data) ==
    (IF record # NoId
     THEN << [cmd |-> "stop", id |-> record,
              image |-> services[1].service, args |-> <<>>] >>
     ELSE <<>>)
    \o (IF event_name = "start"
        THEN << [cmd |-> "run", id |-> NoId, image |-> services[1].service,
                 args |-> run_command(services[1], data)] >>
        ELSE <<>>)

\* the containers that are live
Running == {id \in ContainerIds : containers[id] # NoContainer}

\* the callback was entered in this invocation and the invocation is over
CallbackEnded == pc = "idle" /\ (returned # {} \/ cmds # <<>>)

\* C29 as stated: whatever containers are live, an invocation in which the
\* callback was called has issued the commands that follow from the record
\* file and the event.
C29_SameCommands ==
    CallbackEnded => cmds = CommandsOf(prev.record, event, collected)

\* C29: the commands issued are, at every point, the first ones of the
\* sequence that follows from the record file and the event, whatever
\* containers are live; they are the whole sequence once the callback has
\* returned, and stop short of it only after a command that failed. With no
\* record file no stop is issued.
C29_CommandsFromRecordAndEvent ==
    /\ IsPrefix(cmds, CommandsOf(prev.record, event, collected))
    /\ returned # {} => cmds = CommandsOf(prev.record, event, collected)
    /\ (CallbackEnded /\ cmds # CommandsOf(prev.record, event, collected)) =>
        exit = "CalledProcessError"
    /\ prev.record = NoId => \A i \in 1..Len(cmds) : cmds[i].cmd # "stop"

\* a start with no record file while a container from elsewhere is live:
\* the callback has returned and docker run is its only command
C29_Witness ==
    /\ pc = "manage" /\ returned # {}
    /\ event = "start"
    /\ prev.record = NoId
    /\ \E id \in Running : containers[id] = ExternalContainer
    /\ Len(cmds) = 1 /\ cmds[1].cmd = "run"

\* the recorded container was removed by somebody else: its stop fails
C29_StaleRecord ==
    /\ pc = "idle" /\ exit = "CalledProcessError"
    /\ cidFile # NoId /\ cidFile \notin Running
    /\ Len(cmds) = 1 /\ cmds[1].cmd = "stop"

(***************************************************************************)
(* Properties of the record file over a sequence of callback calls.        *)
(***************************************************************************)
\* C31: when a call of the callback has returned, the record file exists
\* exactly if the call was for the start event, and it then names the one
\* live container; the record file changes inside the callback only, so it
\* stays that way until the callback is called again. No more than one
\* container started by the unit is ever live.
C31_RecordIffLastWasStart ==
    /\ [](CallbackReturned =>
            /\ RecordExists <=> event = "start"
            /\ Running = (IF event = "start" THEN {cidFile} ELSE {}))
    /\ [](Cardinality(Running) <= 1)
    /\ [][cidFile' # cidFile => pc \in {"remove", "event"}]_vars

\* a call for another event returned and left no record, then a call for
\* start returned: the record names its container, the only one live
C31_Witness ==
    /\ Completed /\ CallbackReturned
    /\ event = "start"
    /\ prev.called /\ prev.exit = "ok" /\ prev.record = NoId
    /\ RecordExists
    /\ Running = {cidFile}

(***************************************************************************)
(* Properties of a unit without peers.                                     *)
(***************************************************************************)
\* no unit of the intracluster relation publishes private-address
NoPeerPublishes == \A u \in Units : peerRel[u] # "addr"

\* C32: an invocation that finds no unit publishing private-address on the
\* intracluster relation issues no docker run, whatever the event and
\* whether the relation has no unit or units without the key; and while no
\* unit ever publishes it, no record file is written and no container is
\* live, however many hooks are run.
C32_NoPeerNoLaunch ==
    /\ []((pc # "idle" /\ NoPeerPublishes) =>
            /\ \A i \in 1..Len(cmds) : cmds[i].cmd # "run"
            /\ returned = {})
    /\ ([]NoPeerPublishes => [](cidFile = NoId /\ Running = {}))

\* a start hook with one peer that joined and has not published its
\* address: the manager went through its services and called no callback
C32_Witness ==
    /\ pc = "manage" /\ svcIdx > Len(services)
    /\ event = "start"
    /\ NoPeerPublishes
    /\ \E u \in Units : peerRel[u] = "nokeys"
    /\ returned = {}
    /\ cmds = <<>>
    /\ cidFile = NoId

(***************************************************************************)
(* Properties of the memoized relation data.                               *)
(***************************************************************************)
\* the keys a unit may have published on the relation
PublishedKeys == {"private-address"}

\* what relation_get returns for a unit when called now
RelationGetNow(u) == Cached(KeyGet(u), relation_get(u))

\* C33: whatever was called before in the process, relation_get returns
\* for every unit a mapping with published keys only, and the mappings a
\* relation provider holds have published keys only.
C33_OnlyPublishedKeys ==
    /\ \A u \in Units :
        RelationGetNow(u) # None => DOMAIN RelationGetNow(u) \subseteq PublishedKeys
    /\ \A i \in 1..Len(qStored) : DOMAIN qStored[i] \subseteq PublishedKeys

\* relation_for_unit was called before get_data asked about the unit: the
\* provider holds a mapping with __unit__ in it
C33_ProviderSeesUnitKey ==
    /\ qPc = "done" /\ qExit = "ok"
    /\ \E i \in 1..Len(qStored) : "__unit__" \in DOMAIN qStored[i]

====
